---- MODULE Spec2Model ----
(***************************************************************************)
(* Model of the adaptive typing-practice engine of src/src/main.rs:        *)
(* TypingErrors (the per-character error model), generate_random_str (the  *)
(* weighted prompt generator) and Practice (the yew component whose update *)
(* handler consumes KeyPress messages).                                    *)
(*                                                                         *)
(* Characters are code points (integers); a Rust String is the sequence of *)
(* its chars, so "a" is <<97>> and the empty key is << >>.                 *)
(* LocalStorage is taken to be reliable: LocalStorage::set never fails.    *)
(***************************************************************************)
EXTENDS Integers, Sequences, FiniteSets, TLC

(* ------------------------------ bounds -------------------------------- *)
\* length of a generated prompt; stands for the literal 50 of main.rs:206
PromptLen == 2
\* how many characters of the alphabet ('a', 'b', ...) the sampler and the
\* typist draw from
NumSampled == 2
\* how many calls of TypingErrors::account a behaviour may make
MaxAccount == 2
\* how many direct calls of TypingErrors::account are explored from each
\* model when the function is checked on its own
MaxDirectCalls == 2
\* largest error_score / error_stats value of the models the function is
\* checked on
MaxInitScore == 1
\* how many mistakes the typist who only makes mistakes may make
MaxMistakes == 12
\* largest error_score found in LocalStorage when the sampling weights are
\* checked
MaxStoredScore == 30

(* ------------------------- program constants -------------------------- *)
ERROR_SCORE_INCR == 10
STAT_SCORE_INCR == 50
\* capacity of Practice::mistyped
MistypedCap == 10

(* ----------------------------- alphabet ------------------------------- *)
default_symbols == 33..126

SampledChars == {c \in default_symbols : c >= 97 /\ c < 97 + NumSampled}

(* key identifiers, as the sequences of their chars *)
Backspace == <<66, 97, 99, 107, 115, 112, 97, 99, 101>>
Enter == <<69, 110, 116, 101, 114>>
EmptyKey == << >>
\* a named key: "F1"
NamedKey == <<70, 49>>
\* single characters outside the alphabet: ' ' and U+00E9
SpaceKey == <<32>>
NonAsciiKey == <<233>>

Keys ==
    {EmptyKey, Backspace, Enter, NamedKey, SpaceKey, NonAsciiKey}
        \cup {<<c>> : c \in SampledChars}

(* ---------------------------- TypingErrors ---------------------------- *)
\* #[derive(Default)] TypingErrors: two empty maps
DefaultTypingErrors == [error_score |-> << >>, error_stats |-> << >>]

\* mutant: plain subtraction, no clamp at 0
saturating_sub_unclamped(x, y) == x - y

\* mutant: the decay is as large as the increment
saturating_sub_by_incr(x, y) ==
    IF x >= y * ERROR_SCORE_INCR THEN x - y * ERROR_SCORE_INCR ELSE 0

saturating_sub(x, y) == IF x >= y THEN x - y ELSE 0

\* HashMap::entry(k).or_default(): the map with k present
or_default(map, k) == IF k \in DOMAIN map THEN map ELSE map @@ (k :> 0)

\* HashMap::get(k).copied().unwrap_or_default()
get_or_default(map, k) == IF k \in DOMAIN map THEN map[k] ELSE 0

\* mutant: the two characters in the wrong order
chars_to_key_swapped(ex, ty) == <<ty, 32, 45, 62, 32, ex>>

\* mutant: the expected character on both sides
chars_to_key_same(ex, ty) == <<ex, 32, 45, 62, 32, ex>>

chars_to_key(ex, ty) == <<ex, 32, 45, 62, 32, ty>>

\* mutant: the character anywhere in the key
starts_with_anywhere(k, c) == \E i \in 1..Len(k) : k[i] = c

starts_with(k, c) == Len(k) >= 1 /\ k[1] = c

account(stats, expected_c, typed_char) ==
    LET correct == expected_c = typed_char
        score == or_default(stats.error_score, expected_c)
    IN  IF correct
        THEN [error_score |->
                  [score EXCEPT ![expected_c] = saturating_sub(@, 1)],
              error_stats |->
                  [k \in DOMAIN stats.error_stats |->
                      IF starts_with(k, expected_c)
                      THEN saturating_sub(stats.error_stats[k], 1)
                      ELSE stats.error_stats[k]]]
        ELSE LET incr == [score EXCEPT ![expected_c] = @ + ERROR_SCORE_INCR]
                 typed == or_default(incr, typed_char)
                 key == chars_to_key(expected_c, typed_char)
                 stat == or_default(stats.error_stats, key)
             IN  [error_score |-> [typed EXCEPT ![typed_char] = @ + 1],
                  error_stats |-> [stat EXCEPT ![key] = @ + STAT_SCORE_INCR]]

(* ---------------------------- LocalStorage ---------------------------- *)
\* serde_json of a TypingErrors: the chars that key error_score become
\* one-character strings, the String keys of error_stats stay as they are
to_json(stats) ==
    [error_score |->
        [k \in {<<c>> : c \in DOMAIN stats.error_score} |->
            stats.error_score[k[1]]],
     error_stats |-> stats.error_stats]

\* serde_json deserialization succeeds: a char is read from a string of
\* exactly one character
parses(doc) == \A k \in DOMAIN doc.error_score : Len(k) = 1

from_json(doc) ==
    [error_score |->
        [c \in {k[1] : k \in DOMAIN doc.error_score} |->
            doc.error_score[<<c>>]],
     error_stats |-> doc.error_stats]

\* the record under ERROR_STORAGE_KEY: absent, or a JSON document
NoRecord == [kind |-> "none", value |-> to_json(DefaultTypingErrors)]
\* {"error_score":{"ab":5},"error_stats":{}}: "ab" is not a char
Unparsable ==
    [kind |-> "json",
     value |-> [error_score |-> (<<97, 98>> :> 5), error_stats |-> << >>]]

\* mutant: the pair statistics are not written
LocalStorage_set_scores_only(stats) ==
    [kind |-> "json",
     value |-> to_json([error_score |-> stats.error_score,
                        error_stats |-> << >>])]

\* LocalStorage::set(ERROR_STORAGE_KEY, self)
LocalStorage_set(stats) == [kind |-> "json", value |-> to_json(stats)]

\* mutant: a lenient parse that keeps the first character of every key
LocalStorage_get_lenient(rec) ==
    IF rec.kind = "json"
    THEN [error_score |->
             [c \in {k[1] : k \in DOMAIN rec.value.error_score} |->
                 rec.value.error_score[
                     CHOOSE k \in DOMAIN rec.value.error_score : k[1] = c]],
          error_stats |-> rec.value.error_stats]
    ELSE DefaultTypingErrors

\* LocalStorage::get(ERROR_STORAGE_KEY).unwrap_or_default()
LocalStorage_get_or_default(rec) ==
    IF rec.kind = "json" /\ parses(rec.value)
    THEN from_json(rec.value)
    ELSE DefaultTypingErrors

(* -------------------------- prompt generator -------------------------- *)
\* mutant: rounds down
div_floor(divident, divisor) == divident \div divisor

div_ceil(divident, divisor) == (divident + (divisor - 1)) \div divisor

weight(stats, c) ==
    div_ceil(get_or_default(stats.error_score, c), ERROR_SCORE_INCR) + 1

\* mutant: one character short (the range 1..50)
generate_random_str_short(stats) ==
    LET drawable == {c \in default_symbols \cap SampledChars :
                        weight(stats, c) > 0}
    IN  {p \in [1..(PromptLen - 1) -> drawable] : TRUE}

\* every string the weighted sampler can return (restricted to SampledChars)
generate_random_str(stats) ==
    LET chars == default_symbols
        drawable == {c \in chars \cap SampledChars : weight(stats, c) > 0}
    IN  {p \in [1..PromptLen -> drawable] : TRUE}

(* ------------------------------ Practice ------------------------------ *)
VARIABLES
    prompt,        \* Practice::prompt
    correctness,   \* Practice::correctness
    mistyped,      \* Practice::mistyped
    error_stats,   \* Practice::error_stats (a TypingErrors)
    storage,       \* LocalStorage record under ERROR_STORAGE_KEY
    accountCalls,  \* number of TypingErrors::account calls so far
    mistakes,      \* every (expected, typed) mistake scored so far, in order
    prevented,     \* prevent_default() was called on the last key event
    panicked       \* the handler hit a panic (wasm abort)

vars ==
    <<prompt, correctness, mistyped, error_stats, storage, accountCalls,
      mistakes, prevented, panicked>>

\* mutant: the alphabet starts at the space character
expected_chars_with_space == 32..126

expected_chars == default_symbols

\* models a previous session may have left in LocalStorage
StoredModels ==
    {[error_score |-> (97 :> 10) @@ (98 :> 1),
      error_stats |-> (chars_to_key(97, 98) :> STAT_SCORE_INCR)],
     [error_score |-> (98 :> 3),
      error_stats |-> (chars_to_key(98, 97) :> 2)]}

InitStorage ==
    {NoRecord, Unparsable} \cup {LocalStorage_set(m) : m \in StoredModels}

\* Practice::create, with the record found in LocalStorage drawn from records
create(records) ==
    /\ storage \in records
    /\ error_stats = LocalStorage_get_or_default(storage)
    /\ prompt \in generate_random_str(error_stats)
    /\ correctness = << >>
    /\ mistyped = << >>
    /\ accountCalls = 0
    /\ mistakes = << >>
    /\ prevented = FALSE
    /\ panicked = FALSE

Init == create(InitStorage)

\* mutant: removes the first entry
pop_front(v) == IF Len(v) = 0 THEN v ELSE Tail(v)

\* mutant: Backspace erases the whole line
pop_all(v) == << >>

\* Vec::pop
pop(v) == IF Len(v) = 0 THEN v ELSE SubSeq(v, 1, Len(v) - 1)

\* mutant: wraps around at the end of the string, never None
nth_wrapping(s, n) == <<s[(n % Len(s)) + 1]>>

\* mutant: off by one, the character after position n
nth_next(s, n) == IF n + 2 <= Len(s) THEN <<s[n + 2]>> ELSE << >>

\* mutant: past the end, the last character instead of None
nth_clamped(s, n) == IF n + 1 <= Len(s) THEN <<s[n + 1]>> ELSE <<s[Len(s)]>>

\* Chars::nth(n) as an Option: << >> is None, <<c>> is Some(c)
nth(s, n) == IF n + 1 <= Len(s) THEN <<s[n + 1]>> ELSE << >>

\* mutant: push_front, evicting at the back
push_mistyped_front(q, pair) ==
    LET pushed == <<pair>> \o q
    IN  IF Len(pushed) > MistypedCap
        THEN SubSeq(pushed, 1, MistypedCap)
        ELSE pushed

\* mutant: over capacity, pop_back instead of pop_front
push_mistyped_drop_newest(q, pair) ==
    LET pushed == Append(q, pair)
    IN  IF Len(pushed) > MistypedCap
        THEN SubSeq(pushed, 1, MistypedCap)
        ELSE pushed

\* VecDeque::push_back followed by the capacity check of update
push_mistyped(q, pair) ==
    LET pushed == Append(q, pair)
    IN  IF Len(pushed) > MistypedCap THEN Tail(pushed) ELSE pushed

\* the view's completion indicator (main.rs:121) and the guard of Enter
complete == Len(correctness) = Len(prompt)

\* mutant: the reset also clears the recent mistakes
reset_clearing_mistyped ==
    /\ prompt' \in generate_random_str(error_stats)
    /\ correctness' = << >>
    /\ mistyped' = << >>
    /\ UNCHANGED <<error_stats, storage, accountCalls, mistakes>>

\* the closure reset of update
reset ==
    /\ prompt' \in generate_random_str(error_stats)
    /\ correctness' = << >>
    /\ UNCHANGED <<mistyped, error_stats, storage, accountCalls, mistakes>>

\* mutant: prevent_default() only after the expected_chars check
prevent_default_if_expected(key) ==
    /\ key # Backspace
    /\ ~(key = Enter /\ Len(prompt) = Len(correctness))
    /\ Len(key) = 1
    /\ key[1] \in expected_chars

\* update reaches ev.prevent_default() (main.rs:163): the key took the third
\* match arm and has exactly one char
prevent_default_called(key) ==
    /\ key # Backspace
    /\ ~(key = Enter /\ Len(prompt) = Len(correctness))
    /\ Len(key) = 1

\* Practice::update on Msg::KeyPress(ev) with ev.key() = key
KeyPress(key) ==
    /\ ~panicked
    /\ prevented' = prevent_default_called(key)
    /\ IF key = Backspace
       THEN /\ correctness' = pop(correctness)
            /\ UNCHANGED <<prompt, mistyped, error_stats, storage,
                           accountCalls, mistakes, panicked>>
       ELSE IF key = Enter /\ Len(prompt) = Len(correctness)
       THEN /\ reset
            /\ UNCHANGED panicked
       ELSE IF Len(key) = 0
       THEN \* chars.next().unwrap() on an empty key
            /\ panicked' = TRUE
            /\ UNCHANGED <<prompt, correctness, mistyped, error_stats,
                           storage, accountCalls, mistakes>>
       ELSE IF Len(key) > 1
       THEN UNCHANGED <<prompt, correctness, mistyped, error_stats,
                        storage, accountCalls, mistakes, panicked>>
       ELSE IF key[1] \notin expected_chars
       THEN UNCHANGED <<prompt, correctness, mistyped, error_stats,
                        storage, accountCalls, mistakes, panicked>>
       ELSE IF nth(prompt, Len(correctness)) = << >>
       THEN UNCHANGED <<prompt, correctness, mistyped, error_stats,
                        storage, accountCalls, mistakes, panicked>>
       ELSE LET char == key[1]
                expected_c == nth(prompt, Len(correctness))[1]
                correct == expected_c = char
                stats == account(error_stats, expected_c, char)
            IN  /\ correctness' = Append(correctness, correct)
                /\ error_stats' = stats
                /\ storage' = LocalStorage_set(stats)
                /\ accountCalls' = accountCalls + 1
                /\ mistyped' = IF correct THEN mistyped
                               ELSE push_mistyped(mistyped,
                                                  <<expected_c, char>>)
                /\ mistakes' = IF correct THEN mistakes
                               ELSE Append(mistakes, <<expected_c, char>>)
                /\ UNCHANGED <<prompt, panicked>>

\* the key is one that update scores against the prompt
Scored(key) == Len(key) = 1 /\ key[1] \in expected_chars /\ ~complete

Next ==
    \E key \in Keys :
        /\ Scored(key) => accountCalls < MaxAccount
        /\ KeyPress(key)

Spec == Init /\ [][Next]_vars

(* ------------- TypingErrors::account on its own (C9, C10) ------------- *)
\* the character after c among the sampled ones, cyclically
NextChar(c) == IF c + 1 \in SampledChars THEN c + 1 ELSE 97

\* a map given as values per key, -1 standing for an absent key
MapOf(f) == [k \in {k \in DOMAIN f : f[k] >= 0} |-> f[k]]

\* the models account is checked on: every character absent or scored
\* 0..MaxInitScore, every pair c -> NextChar(c) absent or 0..MaxInitScore
BoundedModels ==
    LET pairKeys == {chars_to_key(c, NextChar(c)) : c \in SampledChars}
    IN  {[error_score |-> MapOf(sc), error_stats |-> MapOf(st)] :
            sc \in [SampledChars -> -1..MaxInitScore],
            st \in [pairKeys -> -1..MaxInitScore]}

\* Practice::create finding one of BoundedModels (or the records of Init) in
\* LocalStorage, the sampler drawing 'a' every time
InitAccount ==
    /\ create(InitStorage \cup {LocalStorage_set(m) : m \in BoundedModels})
    /\ prompt = [i \in 1..PromptLen |-> 97]

\* TypingErrors::account(e, t) called on the component's model
AccountCall(e, t) ==
    /\ ~panicked
    /\ error_stats' = account(error_stats, e, t)
    /\ storage' = LocalStorage_set(account(error_stats, e, t))
    /\ accountCalls' = accountCalls + 1
    /\ UNCHANGED <<prompt, correctness, mistyped, mistakes, prevented,
                   panicked>>

NextAccount ==
    \E e \in SampledChars, t \in SampledChars :
        /\ accountCalls < MaxDirectCalls
        /\ AccountCall(e, t)

SpecAccount == InitAccount /\ [][NextAccount]_vars

\* errorScore[c], 0 when absent
ScoreFor(c) ==
    IF c \in DOMAIN error_stats.error_score
    THEN error_stats.error_score[c] ELSE 0

\* only correct keystrokes are accounted; a character whose score is 0 is
\* accounted at most while the call budget lasts
NextDecay ==
    \E c \in SampledChars :
        /\ ScoreFor(c) > 0 \/ accountCalls < MaxDirectCalls
        /\ AccountCall(c, c)

\* account(c, c) is called again and again while errorScore[c] is positive
SpecDecay ==
    /\ InitAccount
    /\ [][NextDecay]_vars
    /\ \A c \in SampledChars : WF_vars(ScoreFor(c) > 0 /\ AccountCall(c, c))

(* ------------- the typist who makes no mistake (C3) --------------- *)
NextCorrect ==
    \E c \in SampledChars :
        /\ Len(correctness) < Len(prompt)
        /\ c = prompt[Len(correctness) + 1]
        /\ KeyPress(<<c>>)

\* Practice::create finding any of the records above in LocalStorage
InitTyping ==
    create(InitStorage \cup {LocalStorage_set(m) : m \in BoundedModels})

SpecCorrect == InitTyping /\ [][NextCorrect]_vars

(* ---- ten mistakes, then ten correct keystrokes, empty model (C11) ---- *)
\* Practice::create finding no usable record in LocalStorage
InitEmpty == create({NoRecord, Unparsable})

\* some e is mistyped as t ten times and then typed correctly ten times; the
\* first call picks the pair, the later ones read it off error_stats
NextScenario ==
    \E e \in SampledChars, t \in SampledChars :
        /\ e # t
        /\ accountCalls > 0 =>
              chars_to_key(e, t) \in DOMAIN error_stats.error_stats
        /\ \/ accountCalls < 10 /\ AccountCall(e, t)
           \/ accountCalls >= 10 /\ accountCalls < 20 /\ AccountCall(e, e)

SpecScenario == InitEmpty /\ [][NextScenario]_vars

(* ------------- the typist who only makes mistakes (C12) -------------- *)
\* a string of one repeated character
Uniform(p) == \A i \in 1..Len(p) : p[i] = p[1]

\* Practice::create, the sampler drawing one character throughout
InitMistakes == Init /\ Uniform(prompt)

\* every position is mistyped as the next character; a finished round is
\* followed by Enter, the sampler again drawing one character throughout
NextMistakes ==
    \/ \E c \in SampledChars :
          /\ Len(correctness) < Len(prompt)
          /\ Len(mistakes) < MaxMistakes
          /\ c = NextChar(prompt[Len(correctness) + 1])
          /\ KeyPress(<<c>>)
    \/ /\ Len(correctness) = Len(prompt)
       /\ KeyPress(Enter)
       /\ Uniform(prompt')

SpecMistakes == InitMistakes /\ [][NextMistakes]_vars

(* ------------- rounds over models of many scores (C15) --------------- *)
\* Practice::create finding no record, or a record where 'a' has any score
\* up to MaxStoredScore, or the score 100
InitRounds ==
    create({NoRecord} \cup
           {LocalStorage_set([error_score |-> (97 :> sc),
                              error_stats |-> << >>]) :
               sc \in (0..MaxStoredScore) \cup {100}})

\* rounds typed without a mistake, each followed by Enter
NextRounds ==
    \/ accountCalls < MaxAccount /\ NextCorrect
    \/ Len(correctness) = Len(prompt) /\ KeyPress(Enter)

SpecRounds == InitRounds /\ [][NextRounds]_vars

(* ------------- a session that starts on an empty model (C19) --------- *)
SpecFresh == InitEmpty /\ [][Next]_vars

(* ============================== claims =============================== *)
\* the two states of a round
InProgress == Len(correctness) < Len(prompt)
Complete == Len(correctness) = Len(prompt)

\* the 94 printable ASCII characters 0x21..0x7E
Alphabet == 33..126

\* the engine's data: everything but the per-event flags
data == <<prompt, correctness, mistyped, error_stats, storage, accountCalls>>

AllButLast(v) == [i \in 1..(Len(v) - 1) |-> v[i]]

\* the last n entries of q, in order
LastN(q, n) ==
    IF Len(q) <= n THEN q ELSE [i \in 1..n |-> q[Len(q) - n + i]]

\* C1: in every reachable state correctness is no longer than the prompt,
\* and the completion indicator is shown exactly when the lengths are equal,
\* that is exactly when the round is not InProgress.
C1_LengthInvariant ==
    /\ Len(correctness) <= Len(prompt)
    /\ complete <=> ~InProgress

\* C1 witness: a round was typed to its end, with a mistake on the way
C1_Witness == Complete /\ mistyped # << >> /\ accountCalls >= PromptLen

\* C2: in InProgress a single alphabet character appends exactly one entry,
\* (typed = prompt[cursor]), calls account(prompt[cursor], typed) exactly
\* once, pushes the pair to the recent mistakes iff the entry is false, and
\* the round is Complete afterwards iff this was the last position.
C2_ScoredKeystroke ==
    [][\A key \in Keys :
        (InProgress /\ Len(key) = 1 /\ key[1] \in Alphabet /\ KeyPress(key)) =>
            LET cursor == Len(correctness) + 1
                e == prompt[cursor]
                c == key[1]
            IN  /\ correctness' = Append(correctness, c = e)
                /\ Len(correctness') = cursor
                /\ accountCalls' = accountCalls + 1
                /\ error_stats' = account(error_stats, e, c)
                /\ mistyped' =
                      IF c = e THEN mistyped
                      ELSE LastN(Append(mistyped, <<e, c>>), MistypedCap)
                /\ prompt' = prompt
                /\ Complete' <=> cursor = Len(prompt)]_vars

\* C2 witness: a mistake was scored on the first position of a round and the
\* cursor moved on
C2_Witness ==
    /\ Len(correctness) = 1
    /\ correctness[1] = FALSE
    /\ Len(mistyped) = 1
    /\ mistyped[1][1] = prompt[1]
    /\ accountCalls = 1

\* C3: while only the prompt's own characters are typed from a fresh round,
\* correctness is all-true with one entry per keystroke, and the round is
\* Complete exactly after keystroke number PromptLen.
C3_CorrectRun ==
    /\ correctness = [i \in 1..accountCalls |-> TRUE]
    /\ Complete <=> accountCalls = PromptLen

\* C3 witness: the whole prompt has been typed without a mistake
C3_Witness ==
    /\ Complete
    /\ accountCalls = PromptLen
    /\ \A i \in 1..Len(correctness) : correctness[i]

C5_Backspace ==
    [][KeyPress(Backspace) =>
        /\ IF correctness = << >>
           THEN correctness' = << >>
           ELSE correctness' = AllButLast(correctness)
        /\ UNCHANGED <<prompt, mistyped, error_stats, storage, accountCalls>>
        /\ ~Complete']_vars

\* C5 witness: the only scored keystroke was erased
C5_Witness == accountCalls = 1 /\ correctness = << >> /\ ~prevented

\* C6: Enter in Complete starts a round: InProgress, empty correctness, a
\* prompt of PromptLen alphabet characters, recent mistakes and error model
\* (and its stored snapshot) untouched; Enter in InProgress changes nothing.
C6_Enter ==
    [][KeyPress(Enter) =>
        IF Complete
        THEN /\ InProgress'
             /\ correctness' = << >>
             /\ Len(prompt') = PromptLen /\ PromptLen > 0
             /\ \A i \in 1..Len(prompt') : prompt'[i] \in Alphabet
             /\ UNCHANGED <<mistyped, error_stats, storage, accountCalls>>
        ELSE UNCHANGED data]_vars

\* C6 witness: a new round begun while mistakes of the last one are on record
C6_Witness ==
    /\ accountCalls >= PromptLen
    /\ correctness = << >>
    /\ mistyped # << >>
    /\ ~prevented
    /\ ~panicked

\* C7: a multi-character key other than Backspace/Enter, or a single
\* character outside the alphabet, changes none of prompt, correctness,
\* recent mistakes, error model and stored snapshot.
Ignorable(key) ==
    \/ Len(key) > 1 /\ key \notin {Backspace, Enter}
    \/ Len(key) = 1 /\ key[1] \notin Alphabet

C7_Ignored ==
    [][\A key \in Keys :
        (Ignorable(key) /\ KeyPress(key)) => UNCHANGED data]_vars

\* C7 witness: a character outside the alphabet was pressed before anything
\* was scored
C7_Witness ==
    /\ prevented
    /\ accountCalls = 0
    /\ correctness = << >>
    /\ storage \in InitStorage

\* C8: the empty key is ignored: no state change, no abort.
C8_EmptyKeyIgnored ==
    [][KeyPress(EmptyKey) => (UNCHANGED data /\ ~panicked')]_vars

\* pairStats[(e, t)], 0 when absent; the key has the form "e -> t"
PairStat(e, t) ==
    LET k == <<e, 32, 45, 62, 32, t>>
    IN  IF k \in DOMAIN error_stats.error_stats
        THEN error_stats.error_stats[k] ELSE 0

\* C9: account(e, t) with e # t adds exactly 10 to errorScore[e], exactly 1
\* to errorScore[t] and exactly 50 to pairStats[(e, t)].
C9_Mistake ==
    [][\A e \in SampledChars, t \in SampledChars :
        (e # t /\ AccountCall(e, t)) =>
            /\ ScoreFor(e)' = ScoreFor(e) + 10
            /\ ScoreFor(t)' = ScoreFor(t) + 1
            /\ PairStat(e, t)' = PairStat(e, t) + 50
            /\ ERROR_SCORE_INCR = 10 /\ STAT_SCORE_INCR = 50]_vars

\* C9 witness: one mistake accounted on a model that already held scores
C9_Witness ==
    /\ accountCalls = 1
    /\ \E e \in SampledChars, t \in SampledChars :
        /\ e # t
        /\ ScoreFor(e) = 10 + MaxInitScore
        /\ ScoreFor(t) = 1 + MaxInitScore
        /\ PairStat(e, t) = 50 + MaxInitScore

\* C10: account(c, c) increases no errorScore and no pairStats value; no
\* errorScore is ever below 0; and under repeated account(c, c) calls
\* errorScore[c] reaches 0 and stays there.
C10_Decay ==
    /\ [][\A c \in SampledChars :
            AccountCall(c, c) =>
                /\ \A d \in Alphabet : ScoreFor(d)' <= ScoreFor(d)
                /\ \A k \in DOMAIN error_stats'.error_stats :
                      /\ k \in DOMAIN error_stats.error_stats
                      /\ error_stats'.error_stats[k]
                            <= error_stats.error_stats[k]]_vars
    /\ [](\A d \in Alphabet : ScoreFor(d) >= 0)
    /\ \A c \in SampledChars : <>[](ScoreFor(c) = 0)

\* C10 witness: a stored score of 10 has been brought down to 0 by ten
\* correct keystrokes
C10_Witness ==
    /\ storage.kind = "json"
    /\ accountCalls >= 10
    /\ 97 \in DOMAIN error_stats.error_score
    /\ ScoreFor(97) = 0


\* C11 as stated: after 'a' was mistyped as 'b' ten times and then typed
\* correctly ten times on an empty model, errorScore['a'] and
\* pairStats[('a','b')] are back to 0.
C11_AsStated ==
    (/\ accountCalls = 20
     /\ <<97, 32, 45, 62, 32, 98>> \in DOMAIN error_stats.error_stats)
        => (ScoreFor(97) = 0 /\ PairStat(97, 98) = 0)

\* C11 amended: the decay is 1 per correct keystroke, not the increment, so
\* after ten mistakes e -> t and ten correct e the residuals are
\* errorScore[e] = 10*10 - 10 = 90 and pairStats[(e,t)] = 10*50 - 10 = 490
\* (errorScore[t] stays 10); in particular for e = 'a', t = 'b'.
C11_Residual ==
    \A e \in SampledChars, t \in SampledChars :
        (/\ accountCalls = 20
         /\ <<e, 32, 45, 62, 32, t>> \in DOMAIN error_stats.error_stats)
            => /\ ScoreFor(e) = 90
               /\ PairStat(e, t) = 490
               /\ ScoreFor(t) = 10

\* C11 witness: the scenario has run to its end for 'a' mistyped as 'b'
C11_Witness ==
    /\ accountCalls = 20
    /\ <<97, 32, 45, 62, 32, 98>> \in DOMAIN error_stats.error_stats
    /\ storage.kind = "json"


\* C12: the recent mistakes never hold more than 10 entries and are always
\* the last min(n, 10) of the n mistakes made so far, in order, across
\* rounds: with the 11th mistake the oldest entry goes.
C12_Fifo ==
    /\ Len(mistyped) <= 10
    /\ mistyped = LastN(mistakes, 10)

\* C12 witness: twelve mistakes over several rounds, the first two evicted,
\* the third (of another pair than the second) now the oldest on record
C12_Witness ==
    /\ Len(mistakes) = 12
    /\ Len(mistyped) = 10
    /\ mistakes[2] # mistakes[3]
    /\ mistyped[1] = mistakes[3]


\* C13: once account has been called, the record in LocalStorage is the JSON
\* of the whole in-memory model: every error_score entry under the
\* one-character string of its char, and error_stats as it is.
C13_Persisted ==
    accountCalls > 0 =>
        /\ storage.kind = "json"
        /\ DOMAIN storage.value.error_score
              = {<<c>> : c \in DOMAIN error_stats.error_score}
        /\ \A c \in DOMAIN error_stats.error_score :
              storage.value.error_score[<<c>>] = error_stats.error_score[c]
        /\ storage.value.error_stats = error_stats.error_stats

\* C13 witness: two keystrokes scored, one of them a mistake, and the pair
\* statistics are in the stored record
C13_Witness ==
    /\ accountCalls >= 2
    /\ Len(mistakes) >= 1
    /\ storage.kind = "json"
    /\ DOMAIN storage.value.error_stats # {}


\* C14: in every reachable state the prompt has exactly PromptLen
\* characters, each of the 94 characters 0x21..0x7E, whatever the error
\* model it was generated from (the empty one included).
C14_PromptShape ==
    /\ Len(prompt) = PromptLen
    /\ \A i \in 1..Len(prompt) : prompt[i] \in Alphabet
    /\ default_symbols = Alphabet
    /\ Cardinality(Alphabet) = 94

\* C14 witness: a prompt generated by Enter after a round without mistakes
C14_Witness ==
    /\ accountCalls = PromptLen
    /\ correctness = << >>
    /\ mistakes = << >>
    /\ error_stats # DefaultTypingErrors
    /\ ~prevented
    /\ ~panicked

\* the least q with q * d >= n
CeilDiv(n, d) == CHOOSE q \in 0..n : q * d >= n /\ (q = 0 \/ (q - 1) * d < n)

\* C15: the sampling weight of every alphabet character is
\* ceil(scoreFor(c) / 10) + 1, at least 1; score 100 gives 11 and a
\* character without a score gives 1.
C15_Weight ==
    \A c \in Alphabet :
        /\ weight(error_stats, c) = CeilDiv(ScoreFor(c), 10) + 1
        /\ weight(error_stats, c) >= 1
        /\ ScoreFor(c) = 100 => weight(error_stats, c) = 11
        /\ c \notin DOMAIN error_stats.error_score
              => weight(error_stats, c) = 1

\* C15 witness: a prompt was generated by Enter from a model that scores 'a'
\* above 90 and has no entry for 'b'
C15_Witness ==
    /\ accountCalls = PromptLen
    /\ correctness = << >>
    /\ ScoreFor(97) > 90
    /\ 98 \notin DOMAIN error_stats.error_score


\* C16: until the first account call the model is the one loaded at
\* creation: empty if LocalStorage holds no record or one that is not the
\* JSON of a TypingErrors, else the stored maps; the session is InProgress
\* with empty correctness and a prompt generated from that model.
C16_Load ==
    accountCalls = 0 =>
        LET doc == storage.value
            usable == /\ storage.kind = "json"
                      /\ \A k \in DOMAIN doc.error_score : Len(k) = 1
        IN  /\ ~usable => error_stats = [error_score |-> << >>,
                                        error_stats |-> << >>]
            /\ usable =>
                  /\ DOMAIN error_stats.error_score
                        = {k[1] : k \in DOMAIN doc.error_score}
                  /\ \A k \in DOMAIN doc.error_score :
                        error_stats.error_score[k[1]] = doc.error_score[k]
                  /\ error_stats.error_stats = doc.error_stats
            /\ InProgress
            /\ correctness = << >>
            /\ prompt \in generate_random_str(error_stats)

\* C16 witness: the stored record did not parse and the session runs on an
\* empty model
C16_Witness ==
    /\ accountCalls = 0
    /\ storage = Unparsable
    /\ error_stats = DefaultTypingErrors
    /\ ~panicked


\* C17 as stated: the host's default is prevented only for a key consumed
\* as a practice keystroke (one alphabet character scored in InProgress).
C17_AsStated ==
    [][\A key \in Keys :
        (KeyPress(key) /\ prevented') =>
            (Len(key) = 1 /\ key[1] \in Alphabet /\ InProgress)]_vars

\* C17 amended: the host's default is prevented exactly for the keys of one
\* character: every practice keystroke, but also a single character outside
\* the alphabet and a character key pressed while Complete; never for
\* Backspace, Enter, any other multi-character key or the empty key.
C17_Prevented ==
    [][\A key \in Keys :
        KeyPress(key) => (prevented' <=> Len(key) = 1)]_vars

\* C17 witness: a character key was pressed in a Complete round and its
\* default prevented, and so was a space before anything was scored
C17_Witness ==
    \/ Complete /\ prevented /\ mistakes # << >>
    \/ prevented /\ accountCalls = 0 /\ storage = NoRecord


Max(a, b) == IF a >= b THEN a ELSE b

\* C18: account(c, c) takes 1 off errorScore[c] and off every pairStats
\* entry whose expected side is c, both clamped at 0, and leaves every other
\* errorScore and every pairStats entry of another expected side as it was;
\* no pairStats entry appears or disappears.
C18_CorrectDecay ==
    [][\A c \in SampledChars :
        AccountCall(c, c) =>
            /\ ScoreFor(c)' = Max(ScoreFor(c) - 1, 0)
            /\ \A d \in Alphabet \ {c} : ScoreFor(d)' = ScoreFor(d)
            /\ \A e \in SampledChars, t \in SampledChars :
                  PairStat(e, t)' = IF e = c
                                    THEN Max(PairStat(e, t) - 1, 0)
                                    ELSE PairStat(e, t)
            /\ DOMAIN error_stats'.error_stats
                  = DOMAIN error_stats.error_stats]_vars

\* C18 witness: one account('a','a') on a model where both characters and
\* both pairs were at MaxInitScore: only the 'a' side has decayed
C18_Witness ==
    /\ accountCalls = 1
    /\ ScoreFor(97) = MaxInitScore - 1
    /\ PairStat(97, 98) = MaxInitScore - 1
    /\ ScoreFor(98) = MaxInitScore
    /\ PairStat(98, 97) = MaxInitScore


\* C19: from an empty model, every pairStats entry is keyed "e -> t" for a
\* mistake (e expected, t typed, e # t) made earlier, and no errorScore or
\* pairStats entry is ever removed.
C19_Entries ==
    /\ [](\A k \in DOMAIN error_stats.error_stats :
            \E i \in 1..Len(mistakes) :
                /\ mistakes[i][1] # mistakes[i][2]
                /\ k = <<mistakes[i][1], 32, 45, 62, 32, mistakes[i][2]>>)
    /\ [][/\ DOMAIN error_stats.error_score
                \subseteq DOMAIN error_stats'.error_score
           /\ DOMAIN error_stats.error_stats
                \subseteq DOMAIN error_stats'.error_stats]_vars

\* C19 witness: an entry made by a mistake has decayed and is still there
C19_Witness ==
    /\ Len(mistakes) = 1
    /\ \E k \in DOMAIN error_stats.error_stats :
          error_stats.error_stats[k] < 50


\* C20: Backspace changes correctness only (one entry less, if any) and
\* leaves the prompt, the recent mistakes, the error model, its stored
\* snapshot and the number of account calls as they were; account is called
\* once on every step that adds a correctness entry and on no other step,
\* also when the position had been typed and erased before.
C20_BackspaceFrame ==
    [][/\ KeyPress(Backspace) =>
            /\ UNCHANGED <<prompt, mistyped, error_stats, storage,
                           accountCalls, mistakes>>
            /\ Len(correctness') = Max(Len(correctness) - 1, 0)
       /\ accountCalls' \in {accountCalls, accountCalls + 1}
       /\ accountCalls' = accountCalls + 1
            <=> Len(correctness') = Len(correctness) + 1
       /\ \A key \in Keys :
            (/\ InProgress
             /\ Len(key) = 1
             /\ key[1] \in Alphabet
             /\ KeyPress(key)) => accountCalls' = accountCalls + 1]_vars

\* C20 witness: the first position was mistyped, erased and mistyped again:
\* two account calls and two recorded mistakes for a cursor at 1
C20_Witness ==
    /\ Len(correctness) = 1
    /\ accountCalls = 2
    /\ Len(mistakes) = 2
    /\ mistakes[1][1] = prompt[1]
    /\ mistakes[2][1] = prompt[1]
    /\ prompt[1] # prompt[2]

====
